---- MODULE Spec2Model ----
(***************************************************************************)
(* Model of util/logging/rotate_logger.go: the size-triggered rotating     *)
(* file writer (RotateFileWriter, rotateFile, archive).                    *)
(*                                                                         *)
(* Every atomic operation of the Go code on shared state (an atomic add,   *)
(* a load or store of the atomic.Value, a WaitGroup operation, the entry   *)
(* and exit of sync.Once.Do, a system call on a descriptor or a path) is   *)
(* one action; the local computation between two of them belongs to the    *)
(* action that precedes it.                                                *)
(*                                                                         *)
(* The operating system is modelled by inodes: the file a handle opened    *)
(* keeps its identity through a rename.  Handle h opened inode h.          *)
(***************************************************************************)
EXTENDS Integers, Sequences, FiniteSets, TLC

\* ---------------------------------------------------------------- bounds
MaxSizeBytes == 2      \* cfg.MaxSizeBytes is drawn from 1..MaxSizeBytes
MaxLen       == 2      \* payload lengths are 1..MaxLen
MaxWrites    == 2      \* Write calls issued, by all writers together
MaxHandles   == 2      \* rotateFile objects ever allocated
MaxFaults    == 1      \* failures injected by the operating system
MaxStamp     == 3      \* the clock runs from 1 to MaxStamp
MaxRetain    == 2      \* cfg.RetentionFiles is drawn from 0..MaxRetain
MaxAge       == 1      \* cfg.RetentionDuration is drawn from 0..MaxAge

Writers == {"w1", "w2"}
Handles == 0 .. (MaxHandles - 1)
Lens    == 1 .. MaxLen
NoHandle == -1

\* ---------------------------------------------------------------- errors
\* Go error values.  os.File methods wrap every failure in a *PathError, so
\* a write or close on a closed descriptor yields PathError{Err: ErrClosed},
\* which is a different value from the bare os.ErrClosed.
Err(kind, cause) == [kind |-> kind, cause |-> cause]
NoErr      == Err("nil", "nil")
ErrClosed  == Err("ErrClosed", "nil")            \* os.ErrClosed
ErrInvalid == Err("ErrInvalid", "nil")           \* os.ErrInvalid (nil *os.File)
PathErrClosed == Err("PathError", "ErrClosed")   \* &PathError{Err: ErrClosed}
PathErrIO(op) == Err("PathError", op)            \* &PathError{Op: op, Err: errno}
RotatingErr(e) == Err("rotating", e.cause)       \* fmt.Errorf("error rotating log: %s", err)
RotateFailedErr == Err("rotating", "none")       \* errors.New("error rotating log")

VARIABLES
    ctor,       \* outcome of NewRotateFileWriter: "new", "ok", "nilnil", "err"
    stat,       \* what os.Stat(cfg.Path) found in NewRotateFileWriter
    sync,       \* cfg.sync
    max,        \* cfg.MaxSizeBytes, copied into rotateFile.max of every handle
    crashed,    \* a goroutine panicked: the process is gone
    container,  \* the atomic.Value shared by the facade and the handles
    closed,     \* RotateFileWriter.closed
    count,      \* rotateFile.count, per handle
    once,       \* rotateFile.once, per handle: "idle", "running", "done"
    wg,         \* rotateFile.wg counter, per handle
    file,       \* rotateFile.file, per handle: "none", "nil", "open", "closed"
    nextH,      \* number of rotateFile objects allocated so far
    name,       \* directory entry of inode h: "none", "path", "inter", "gone"
    content,    \* payloads appended to inode h, in order
    size,       \* number of bytes stored in inode h
    zip,        \* the archive <path>.<ts>.zip of inode h: "none", "partial", "full"
    arch,       \* the execution of archive for the file of handle h: "none",
                \* "pending" (goroutine started), "ok", or the step that failed
    pc,         \* position of each writer
    f,          \* receiver of the rotateFile.Write frame each writer is in
    plen,       \* len(p) of the call each writer is in
    err,        \* the local err of each writer
    fr,         \* the handle Rotate returns to each writer
    issued,     \* number of Write calls each writer has made
    over,       \* the writer's current frame took the over-the-limit branch
    ran,        \* the writer's current frame ran the once.Do closure
    late,       \* the writer's current call began after Close had returned
    postFail,   \* the writer's current call began after a Rotate had failed
    results,    \* per writer, the records of its finished Write calls
    cpc,        \* position of the caller of Close
    cf,         \* the handle Close loaded
    cerr,       \* what Close returned
    faults,     \* failures injected so far
    closedBy,   \* who closed the descriptor of handle h: "none", "rotate", "facade"
    nRotate,    \* number of executions of Rotate on handle h
    nClose,     \* number of calls of f.Close() by Rotate of handle h
    nRename,    \* number of successful renames of inode h to its intermediate name
    nOpen,      \* number of descriptors opened by Rotate of handle h
    rotRes,     \* outcome of Rotate on handle h: "none", "ok", "fail"
    rotErr,     \* the error Rotate returned on handle h
    crosser,    \* the payload that took handle h's counter over the maximum
    retentionFiles,     \* RotateFileWriter.retentionFiles
    retentionDuration,  \* RotateFileWriter.retentionDuration
    now,        \* time.Now()
    dir,        \* the entries of filepath.Dir(r.path) other than the log file
    rpc,        \* position of the reapLoop goroutine
    cancelled,  \* ctx.Done() is closed
    tickC,      \* number of ticks buffered in ticker.C (capacity 1)
    errors,     \* the buffer of the channel StartReaper returns (capacity 1)
    errClosed,  \* close(errors) has been executed
    reading,    \* the consumer of the error channel is still receiving
    res,        \* the result of reap that reapLoop is about to send
    reaped      \* what the last execution of reap saw and did

hvars == <<container, closed, count, once, wg, file, nextH>>
fsvars == <<name, content, size, zip, arch>>
wvars == <<pc, f, plen, err, fr, issued, over, ran, late, postFail, results>>
cvars == <<cpc, cf, cerr>>
gvars == <<faults, closedBy, nRotate, nClose, nRename, nOpen, rotRes, rotErr,
          crosser>>
rvars == <<retentionFiles, retentionDuration, now, dir, rpc, cancelled, tickC,
          errors, errClosed, reading, res, reaped>>
vars == <<ctor, stat, sync, max, crashed, hvars, fsvars, wvars, cvars, gvars,
         rvars>>

NoPayload == <<"none", 0>>
\* the payload of the call writer w is in
Payload(w) == <<w, issued[w]>>

RECURSIVE SumOver(_, _)
SumOver(fn, S) ==
    IF S = {} THEN 0
    ELSE LET x == CHOOSE y \in S : TRUE IN fn[x] + SumOver(fn, S \ {x})
\* Write calls made so far, by all writers
TotalIssued == SumOver(issued, Writers)

\* what os.Stat returned: res is "none" (not called yet), "notexist",
\* "exists" or "error"; size is fi.Size() when the file exists
StatResult(r, s) == [res |-> r, size |-> s]

\* a directory entry made from the log file at time ts: the intermediate file
\* <path>.<ts> (kind "inter") or its archive <path>.<ts>.zip (kind "zip")
Entry(k, ts) == [kind |-> k, ts |-> ts]
Stamps == 1 .. MaxStamp
Entries == {Entry(k, ts) : k \in {"inter", "zip"}, ts \in Stamps}
\* no execution of reap yet
NotReaped ==
    [ran |-> FALSE, err |-> NoErr, now |-> 0, files |-> {}, old |-> {},
     excess |-> {}, gone |-> {}]

\* the writer before NewRotateFileWriter is called
WriterInit ==
    /\ ctor = "new"
    /\ stat = StatResult("none", 0)
    /\ container = NoHandle
    /\ file = [h \in Handles |-> "none"]
    /\ nextH = 0
    /\ name = [h \in Handles |-> "none"]

\* the configuration, and what no Write, Rotate or Close has touched yet
Untouched ==
    /\ sync \in BOOLEAN
    /\ max \in 1 .. MaxSizeBytes
    /\ crashed = FALSE
    /\ closed = 0
    /\ count = [h \in Handles |-> 0]
    /\ once = [h \in Handles |-> "idle"]
    /\ wg = [h \in Handles |-> 0]
    /\ content = [h \in Handles |-> <<>>]
    /\ size = [h \in Handles |-> 0]
    /\ zip = [h \in Handles |-> "none"]
    /\ arch = [h \in Handles |-> "none"]
    /\ pc = [w \in Writers |-> "idle"]
    /\ f = [w \in Writers |-> NoHandle]
    /\ plen = [w \in Writers |-> 0]
    /\ err = [w \in Writers |-> NoErr]
    /\ fr = [w \in Writers |-> NoHandle]
    /\ issued = [w \in Writers |-> 0]
    /\ over = [w \in Writers |-> FALSE]
    /\ ran = [w \in Writers |-> FALSE]
    /\ late = [w \in Writers |-> FALSE]
    /\ postFail = [w \in Writers |-> FALSE]
    /\ results = [w \in Writers |-> <<>>]
    /\ cpc = "idle"
    /\ cf = NoHandle
    /\ cerr = NoErr
    /\ faults = 0
    /\ closedBy = [h \in Handles |-> "none"]
    /\ nRotate = [h \in Handles |-> 0]
    /\ nClose = [h \in Handles |-> 0]
    /\ nRename = [h \in Handles |-> 0]
    /\ nOpen = [h \in Handles |-> 0]
    /\ rotRes = [h \in Handles |-> "none"]
    /\ rotErr = [h \in Handles |-> NoErr]
    /\ crosser = [h \in Handles |-> NoPayload]

\* the reaper before StartReaper is called: the configuration is any, the
\* directory holds no archive, nobody has cancelled
ReaperInit ==
    /\ retentionFiles \in 0 .. MaxRetain
    /\ retentionDuration \in 0 .. MaxAge
    /\ now = 1
    /\ dir = {}
    /\ rpc = "off"
    /\ cancelled = FALSE
    /\ tickC = 0
    /\ errors = <<>>
    /\ errClosed = FALSE
    /\ reading = TRUE
    /\ res = NoErr
    /\ reaped = NotReaped

\* The writer is followed from its construction on; the reaper is configured
\* off (both retention settings zero) and never started.
Init ==
    /\ WriterInit
    /\ Untouched
    /\ ReaperInit
    /\ retentionFiles = 0
    /\ retentionDuration = 0

\* the process is running and holds a writer
Live == ctor = "ok" /\ ~crashed
\* the operating system may still fail a call
MayFail == faults < MaxFaults
\* the outcomes a system call can have
Outcomes(canFail) == {TRUE} \cup (IF MayFail /\ canFail THEN {FALSE} ELSE {})

\* ------------------------------------------------------ NewRotateFileWriter
\* found is the outcome of os.Stat(cfg.Path), s the size of the file when it
\* exists, opened the outcome of os.OpenFile.
NewRotateFileWriter(found, s, opened) ==
    /\ ctor = "new"
    /\ s \in (IF found = "exists" THEN 0 .. MaxSizeBytes ELSE {0})
    /\ stat' = StatResult(found, s)
    /\ IF found = "notexist"
       THEN \* os.IsNotExist(err): the only path that reaches OpenFile; the
            \* result of OpenFile is not looked at before `return w, nil`
            /\ opened \in Outcomes(TRUE)
            /\ ctor' = "ok"
            /\ file' = [file EXCEPT ![0] = IF opened THEN "open" ELSE "nil"]
            /\ name' = [name EXCEPT ![0] = IF opened THEN "path" ELSE "none"]
            /\ faults' = IF opened THEN faults ELSE faults + 1
            /\ container' = 0
            /\ nextH' = 1
       ELSE \* err == nil (the file exists; count = fi.Size() is computed
            \* and dropped) or another stat error: `return nil, err`
            /\ opened = TRUE
            /\ ctor' = IF found = "exists" THEN "nilnil" ELSE "err"
            /\ UNCHANGED <<file, name, faults, container, nextH>>
    /\ UNCHANGED <<rvars, sync, max, crashed, closed, count, once, wg, content,
                   size, zip,
                   arch, wvars, cvars, closedBy, nRotate, nClose, nRename,
                   nOpen, rotRes, rotErr, crosser>>

\* ------------------------------------------------- RotateFileWriter.Write
\* A caller enters RotateFileWriter.Write with a payload of n bytes, or
\* re-enters it through `return r.Write(p)`, and executes
\* writer := r.container.Load().(*rotateFile); writer.Write(p)
FacadeWrite(w, n) ==
    /\ Live
    /\ \/ /\ pc[w] = "idle"
          /\ TotalIssued < MaxWrites
          /\ plen' = [plen EXCEPT ![w] = n]
          /\ issued' = [issued EXCEPT ![w] = @ + 1]
          /\ late' = [late EXCEPT ![w] = (cpc = "done")]
          /\ postFail' = [postFail EXCEPT ![w] =
                             \E h \in Handles : rotRes[h] = "fail"]
       \/ /\ pc[w] = "retry"
          /\ n = plen[w]
          /\ UNCHANGED <<plen, issued, late, postFail>>
    /\ f' = [f EXCEPT ![w] = container]
    /\ pc' = [pc EXCEPT ![w] = "add"]
    /\ UNCHANGED <<rvars, ctor, stat, sync, max, crashed, hvars, fsvars, err, fr, over, ran,
                   results, cvars, gvars>>

\* The record of a finished call: its payload, the error e it returned, the
\* receiver of its last rotateFile.Write frame and what that frame did.
CallRecord(w, e) ==
    [id |-> Payload(w), err |-> e, h |-> f[w],
     over |-> over[w], ran |-> ran[w], late |-> late[w],
     postFail |-> postFail[w]]

\* rotateFile.Write has returned e to RotateFileWriter.Write:
\* if err == os.ErrClosed { if atomic.LoadInt64(&r.closed) == 0 { return
\* r.Write(p) } }; return n, err
\* r.closed is read only when err is os.ErrClosed; otherwise the return is
\* local to the caller, and part of the action that produced e.  The
\* frame's locals die with the call.
FacadeReturn(w, e) ==
    /\ IF e = ErrClosed /\ closed = 0
       THEN /\ pc' = [pc EXCEPT ![w] = "retry"]
            /\ UNCHANGED <<results, plen, late, postFail>>
       ELSE /\ pc' = [pc EXCEPT ![w] = "idle"]
            /\ results' = [results EXCEPT ![w] = Append(@, CallRecord(w, e))]
            /\ plen' = [plen EXCEPT ![w] = 0]
            /\ late' = [late EXCEPT ![w] = FALSE]
            /\ postFail' = [postFail EXCEPT ![w] = FALSE]
    /\ f' = [f EXCEPT ![w] = NoHandle]
    /\ err' = [err EXCEPT ![w] = NoErr]
    /\ fr' = [fr EXCEPT ![w] = NoHandle]
    /\ over' = [over EXCEPT ![w] = FALSE]
    /\ ran' = [ran EXCEPT ![w] = FALSE]

\* ------------------------------------------------------- rotateFile.Write
\* the comparison made on the counter before the add
Admitted_PreIncrement(cnt, n) == cnt <= max
\* the comparison made strict
Admitted_Strict(cnt, n) == cnt + n < max

\* the comparison made against one byte more than the maximum
Admitted_OneOver(cnt, n) == cnt + n <= max + 1

\* projected := atomic.AddInt64(&f.count, int64(len(p)));
\* if projected <= f.max: cnt is the counter before the add.
Admitted(cnt, n) == cnt + n <= max

\* the add and the comparison
AddCount(w) ==
    /\ Live
    /\ pc[w] = "add"
    /\ LET h == f[w]
       IN /\ count' = [count EXCEPT ![h] = @ + plen[w]]
          /\ pc' = [pc EXCEPT ![w] = IF Admitted(count[h], plen[w])
                                      THEN "wgadd" ELSE "once"]
          /\ over' = [over EXCEPT ![w] = ~Admitted(count[h], plen[w])]
          /\ crosser' = IF count[h] <= max /\ count[h] + plen[w] > max
                        THEN [crosser EXCEPT ![h] = Payload(w)]
                        ELSE crosser
    /\ ran' = [ran EXCEPT ![w] = FALSE]
    /\ UNCHANGED <<rvars, ctor, stat, sync, max, crashed, container, closed, once, wg, file,
                   nextH, fsvars, f, plen, err, fr, issued, late, postFail,
                   results, cvars, faults, closedBy, nRotate, nClose, nRename,
                   nOpen, rotRes, rotErr>>

\* f.wg.Add(1)
WgAdd(w) ==
    /\ Live
    /\ pc[w] = "wgadd"
    /\ wg' = [wg EXCEPT ![f[w]] = @ + 1]
    /\ pc' = [pc EXCEPT ![w] = "fwrite"]
    /\ UNCHANGED <<rvars, ctor, stat, sync, max, crashed, container, closed, count, once,
                   file, nextH, fsvars, f, plen, err, fr, issued, over, ran,
                   late, postFail, results, cvars, gvars>>

\* f.file.Write(p): ok is FALSE when the operating system fails the write.
FileWrite(w, ok) ==
    /\ Live
    /\ pc[w] = "fwrite"
    /\ ok \in Outcomes(file[f[w]] = "open")
    /\ LET h == f[w]
           e == CASE file[h] = "nil"    -> ErrInvalid
                  [] file[h] = "closed" -> PathErrClosed
                  [] OTHER -> IF ok THEN NoErr ELSE PathErrIO("write")
       IN /\ err' = [err EXCEPT ![w] = e]
          /\ content' = IF e = NoErr
                        THEN [content EXCEPT ![h] = Append(@, Payload(w))]
                        ELSE content
          /\ size' = IF e = NoErr
                     THEN [size EXCEPT ![h] = @ + plen[w]]
                     ELSE size
          /\ faults' = IF file[h] = "open" /\ ~ok THEN faults + 1 ELSE faults
    /\ pc' = [pc EXCEPT ![w] = "wgdone"]
    /\ UNCHANGED <<rvars, ctor, stat, sync, max, crashed, hvars, name, zip, arch, f, plen,
                   fr, issued, over, ran, late, postFail, results, cvars,
                   closedBy, nRotate, nClose, nRename, nOpen, rotRes, rotErr,
                   crosser>>

\* defer f.wg.Done(); return: the result of f.file.Write goes back to
\* RotateFileWriter.Write
WgDone(w) ==
    /\ Live
    /\ pc[w] = "wgdone"
    /\ wg' = [wg EXCEPT ![f[w]] = @ - 1]
    /\ FacadeReturn(w, err[w])
    /\ UNCHANGED <<rvars, ctor, stat, sync, max, crashed, container, closed, count, once,
                   file, nextH, fsvars, issued, cvars, gvars>>

\* OnceDo without the single-shot guard: every caller that is over the
\* limit runs the closure.
OnceDo_NoGuard(w) ==
    /\ Live
    /\ pc[w] = "once"
    /\ once[f[w]] # "running"
    /\ once' = [once EXCEPT ![f[w]] = "running"]
    /\ nRotate' = [nRotate EXCEPT ![f[w]] = @ + 1]
    /\ ran' = [ran EXCEPT ![w] = TRUE]
    /\ IF file[f[w]] = "nil"
       THEN crashed' = TRUE /\ UNCHANGED pc
       ELSE pc' = [pc EXCEPT ![w] = "rwait"] /\ UNCHANGED crashed
    /\ UNCHANGED <<rvars, ctor, stat, sync, max, container, closed, count, wg, file, nextH,
                   fsvars, f, plen, err, fr, issued, over, late, postFail,
                   results, cvars, faults, closedBy, nClose, nRename, nOpen,
                   rotRes, rotErr, crosser>>

\* f.once.Do(func() {...}): the first caller runs the closure, a caller that
\* arrives while it runs blocks, a caller that arrives after it skips it.
\* The closure starts Rotate, whose first statements (f.file.Name(), the
\* allocation of the replacement) are local; f.file.Name() dereferences
\* f.file and panics when it is nil.
OnceDo(w) ==
    /\ Live
    /\ pc[w] = "once"
    /\ once[f[w]] # "running"
    /\ IF once[f[w]] = "idle"
       THEN /\ once' = [once EXCEPT ![f[w]] = "running"]
            /\ nRotate' = [nRotate EXCEPT ![f[w]] = @ + 1]
            /\ ran' = [ran EXCEPT ![w] = TRUE]
            /\ IF file[f[w]] = "nil"
               THEN crashed' = TRUE /\ UNCHANGED pc
               ELSE pc' = [pc EXCEPT ![w] = "rwait"] /\ UNCHANGED crashed
       ELSE /\ pc' = [pc EXCEPT ![w] = "load"]
            /\ UNCHANGED <<once, nRotate, ran, crashed>>
    /\ UNCHANGED <<rvars, ctor, stat, sync, max, container, closed, count, wg, file, nextH,
                   fsvars, f, plen, err, fr, issued, over, late, postFail,
                   results, cvars, faults, closedBy, nClose, nRename, nOpen,
                   rotRes, rotErr, crosser>>

\* LoadReplacement without the `replacement == f` error: the call returns
\* nil although nothing was written.
LoadReplacement_Silent(w) ==
    /\ Live
    /\ pc[w] = "load"
    /\ IF container = f[w]
       THEN FacadeReturn(w, NoErr)
       ELSE /\ f' = [f EXCEPT ![w] = container]
            /\ pc' = [pc EXCEPT ![w] = "add"]
            /\ UNCHANGED <<err, fr, over, ran, late, postFail, results, plen>>
    /\ UNCHANGED <<rvars, ctor, stat, sync, max, crashed, hvars, fsvars, issued, cvars,
                   gvars>>

\* replacement := f.container.Load().(*rotateFile); if replacement == f
\* { return 0, errors.New("error rotating log") }; return replacement.Write(p)
LoadReplacement(w) ==
    /\ Live
    /\ pc[w] = "load"
    /\ IF container = f[w]
       THEN FacadeReturn(w, RotateFailedErr)
       ELSE /\ f' = [f EXCEPT ![w] = container]
            /\ pc' = [pc EXCEPT ![w] = "add"]
            /\ UNCHANGED <<err, fr, over, ran, late, postFail, results, plen>>
    /\ UNCHANGED <<rvars, ctor, stat, sync, max, crashed, hvars, fsvars, issued, cvars,
                   gvars>>

\* ------------------------------------------------------ rotateFile.Rotate
\* f.wg.Wait()
RotateWait(w) ==
    /\ Live
    /\ pc[w] = "rwait"
    /\ wg[f[w]] = 0
    /\ pc' = [pc EXCEPT ![w] = "rclose"]
    /\ UNCHANGED <<rvars, ctor, stat, sync, max, crashed, hvars, fsvars, f, plen, err, fr,
                   issued, over, ran, late, postFail, results, cvars, gvars>>

\* (*os.File).Close, reached through rotateFile.Close: the descriptor is
\* released whether or not the system call reports an error; a second Close
\* reports PathError{ErrClosed}.
CloseResult(h, ok) ==
    CASE file[h] = "nil"    -> ErrInvalid
      [] file[h] = "closed" -> PathErrClosed
      [] OTHER -> IF ok THEN NoErr ELSE PathErrIO("close")

\* if err := f.Close(); err != nil { return nil, err }
RotateClose(w, ok) ==
    /\ Live
    /\ pc[w] = "rclose"
    /\ ok \in Outcomes(file[f[w]] = "open")
    /\ LET h == f[w]
           e == CloseResult(h, ok)
       IN /\ file' = [file EXCEPT ![h] = IF @ = "open" THEN "closed" ELSE @]
          /\ closedBy' = [closedBy EXCEPT ![h] =
                             IF file[h] = "open" THEN "rotate" ELSE @]
          /\ nClose' = [nClose EXCEPT ![h] = @ + 1]
          /\ faults' = IF file[h] = "open" /\ ~ok THEN faults + 1 ELSE faults
          /\ err' = [err EXCEPT ![w] = e]
          /\ pc' = [pc EXCEPT ![w] = IF e = NoErr THEN "rrename" ELSE "oncedone"]
    /\ UNCHANGED <<rvars, ctor, stat, sync, max, crashed, container, closed, count, once,
                   wg, nextH, fsvars, f, plen, fr, issued, over, ran, late,
                   postFail, results, cvars, nRotate, nRename, nOpen, rotRes,
                   rotErr, crosser>>

\* if err := rename(currentName, archiveName); err != nil { return nil, err }
RotateRename(w, ok) ==
    /\ Live
    /\ pc[w] = "rrename"
    /\ ok \in Outcomes(TRUE)
    /\ LET h == f[w]
       IN IF ok
          THEN /\ name' = [name EXCEPT ![h] = "inter"]
               /\ nRename' = [nRename EXCEPT ![h] = @ + 1]
               /\ pc' = [pc EXCEPT ![w] = "ropen"]
               /\ UNCHANGED <<err, faults>>
          ELSE /\ err' = [err EXCEPT ![w] = PathErrIO("rename")]
               /\ faults' = faults + 1
               /\ pc' = [pc EXCEPT ![w] = "oncedone"]
               /\ UNCHANGED <<name, nRename>>
    /\ UNCHANGED <<rvars, ctor, stat, sync, max, crashed, hvars, content, size, zip, arch, f,
                   plen, fr, issued, over, ran, late, postFail, results, cvars,
                   closedBy, nRotate, nClose, nOpen, rotRes, rotErr, crosser>>

\* replacement.file, err = os.OpenFile(currentName, O_APPEND|O_CREATE|O_WRONLY);
\* if err != nil { return f, err }
\* The replacement is rotateFile object nextH; it opens a new inode, the
\* old one having been renamed away.
RotateOpen(w, ok) ==
    /\ Live
    /\ pc[w] = "ropen"
    /\ ok \in (IF nextH < MaxHandles THEN {TRUE} ELSE {})
              \cup (IF MayFail THEN {FALSE} ELSE {})
    /\ IF ok
       THEN /\ file' = [file EXCEPT ![nextH] = "open"]
            /\ name' = [name EXCEPT ![nextH] = "path"]
            /\ nextH' = nextH + 1
            /\ nOpen' = [nOpen EXCEPT ![f[w]] = @ + 1]
            /\ fr' = [fr EXCEPT ![w] = nextH]
            /\ pc' = [pc EXCEPT ![w] = "rarchive"]
            /\ UNCHANGED <<err, faults>>
       ELSE /\ fr' = [fr EXCEPT ![w] = f[w]]
            /\ err' = [err EXCEPT ![w] = PathErrIO("open")]
            /\ faults' = faults + 1
            /\ pc' = [pc EXCEPT ![w] = "oncedone"]
            /\ UNCHANGED <<file, name, nextH, nOpen>>
    /\ UNCHANGED <<rvars, ctor, stat, sync, max, crashed, container, closed, count, once,
                   wg, content, size, zip, arch, f, plen, issued, over, ran, late,
                   postFail, results, cvars, closedBy, nRotate, nClose,
                   nRename, rotRes, rotErr, crosser>>

\* ----------------------------------------------------- rotateFile.archive
\* The step of archive that fails: os.Open of the intermediate file,
\* os.Create of the zip, zipper.Create of the entry, io.Copy; or none.
ArchiveSteps == {"none", "open", "create", "entry", "copy"}

\* The intermediate file after archive: the first defer, os.Remove(
\* archiveName), runs on every return of archive; removed is its outcome.
ArchiveName(h, failAt, removed) ==
    IF removed /\ name[h] = "inter" THEN "gone" ELSE name[h]

\* <archiveName>.zip after archive: absent when os.Open or os.Create failed,
\* complete when every step succeeded.
ArchiveZip(h, failAt) ==
    CASE failAt \in {"open", "create"} -> zip[h]
      [] failAt \in {"entry", "copy"}  -> "partial"
      [] OTHER -> "full"

\* the named result err of archive: the failing step's error, or else the
\* error of the deferred remove
ArchiveErr(failAt, removed) ==
    IF failAt # "none" THEN PathErrIO(failAt)
    ELSE IF ~removed THEN PathErrIO("remove")
    ELSE NoErr

\* the failures an execution of archive draws on
ArchiveFaults(failAt, removed) ==
    (IF failAt # "none" THEN 1 ELSE 0) + (IF removed THEN 0 ELSE 1)

\* what is recorded of an execution of archive
ArchiveOutcome(failAt) == IF failAt = "none" THEN "ok" ELSE failAt

\* RotateArchive with archive called inline whatever f.sync is: Rotate waits
\* for archive and returns its error.
RotateArchive_Inline(w, failAt, removed) ==
    /\ Live
    /\ pc[w] = "rarchive"
    /\ LET h == f[w]
       IN IF TRUE
          THEN /\ faults + ArchiveFaults(failAt, removed) <= MaxFaults
               /\ name' = [name EXCEPT ![h] = ArchiveName(h, failAt, removed)]
               /\ zip' = [zip EXCEPT ![h] = ArchiveZip(h, failAt)]
               /\ arch' = [arch EXCEPT ![h] = ArchiveOutcome(failAt)]
               /\ faults' = faults + ArchiveFaults(failAt, removed)
               /\ err' = [err EXCEPT ![w] = ArchiveErr(failAt, removed)]
               /\ fr' = [fr EXCEPT ![w] =
                            IF ArchiveErr(failAt, removed) = NoErr
                            THEN @ ELSE NoHandle]
          ELSE /\ failAt = "none" /\ removed
               /\ arch' = [arch EXCEPT ![h] = "pending"]
               /\ UNCHANGED <<name, zip, faults, err, fr>>
    /\ pc' = [pc EXCEPT ![w] = "oncedone"]
    /\ UNCHANGED <<rvars, ctor, stat, sync, max, crashed, hvars, content, size, f, plen, issued,
                   over, ran, late, postFail, results, cvars, closedBy,
                   nRotate, nClose, nRename, nOpen, rotRes, rotErr, crosser>>

\* if f.sync { if err := f.archive(...); err != nil { return nil, err } }
\* else { go f.archive(...) }; return replacement, nil
RotateArchive(w, failAt, removed) ==
    /\ Live
    /\ pc[w] = "rarchive"
    /\ LET h == f[w]
       IN IF sync
          THEN /\ faults + ArchiveFaults(failAt, removed) <= MaxFaults
               /\ name' = [name EXCEPT ![h] = ArchiveName(h, failAt, removed)]
               /\ zip' = [zip EXCEPT ![h] = ArchiveZip(h, failAt)]
               /\ arch' = [arch EXCEPT ![h] = ArchiveOutcome(failAt)]
               /\ faults' = faults + ArchiveFaults(failAt, removed)
               /\ err' = [err EXCEPT ![w] = ArchiveErr(failAt, removed)]
               /\ fr' = [fr EXCEPT ![w] =
                            IF ArchiveErr(failAt, removed) = NoErr
                            THEN @ ELSE NoHandle]
          ELSE /\ failAt = "none" /\ removed
               /\ arch' = [arch EXCEPT ![h] = "pending"]
               /\ UNCHANGED <<name, zip, faults, err, fr>>
    /\ pc' = [pc EXCEPT ![w] = "oncedone"]
    /\ UNCHANGED <<rvars, ctor, stat, sync, max, crashed, hvars, content, size, f, plen, issued,
                   over, ran, late, postFail, results, cvars, closedBy,
                   nRotate, nClose, nRename, nOpen, rotRes, rotErr, crosser>>

\* the goroutine started by `go f.archive(currentName, archiveName)`
Archive(h, failAt, removed) ==
    /\ Live
    /\ arch[h] = "pending"
    /\ faults + ArchiveFaults(failAt, removed) <= MaxFaults
    /\ name' = [name EXCEPT ![h] = ArchiveName(h, failAt, removed)]
    /\ zip' = [zip EXCEPT ![h] = ArchiveZip(h, failAt)]
    /\ faults' = faults + ArchiveFaults(failAt, removed)
    /\ arch' = [arch EXCEPT ![h] = ArchiveOutcome(failAt)]
    /\ UNCHANGED <<rvars, ctor, stat, sync, max, crashed, hvars, content, size, wvars, cvars,
                   closedBy, nRotate, nClose, nRename, nOpen, rotRes, rotErr,
                   crosser>>

\* OnceReturn without `if err != nil { return 0, fmt.Errorf(...) }`: the
\* caller that ran a failed Rotate goes on to load the container.
OnceReturn_DropErr(w) ==
    /\ Live
    /\ pc[w] = "oncedone"
    /\ LET h == f[w]
       IN /\ once' = [once EXCEPT ![h] = "done"]
          /\ rotRes' = [rotRes EXCEPT ![h] = IF err[w] = NoErr THEN "ok" ELSE "fail"]
          /\ rotErr' = [rotErr EXCEPT ![h] = err[w]]
          /\ container' = IF err[w] = NoErr THEN fr[w] ELSE container
          /\ err' = [err EXCEPT ![w] = NoErr]
          /\ pc' = [pc EXCEPT ![w] = "load"]
          /\ fr' = [fr EXCEPT ![w] = NoHandle]
    /\ UNCHANGED <<rvars, ctor, stat, sync, max, crashed, closed, count, wg, file, nextH,
                   fsvars, f, plen, issued, over, ran, late, postFail, results,
                   cvars, faults, closedBy, nRotate, nClose, nRename, nOpen,
                   crosser>>

\* The end of the once.Do closure and of once.Do:
\* fr, err = f.Rotate(); if err == nil { f.container.Store(fr) }
\* and then, in Write: if err != nil { return 0, fmt.Errorf(...) }
OnceReturn(w) ==
    /\ Live
    /\ pc[w] = "oncedone"
    /\ LET h == f[w]
       IN /\ once' = [once EXCEPT ![h] = "done"]
          /\ rotRes' = [rotRes EXCEPT ![h] = IF err[w] = NoErr THEN "ok" ELSE "fail"]
          /\ rotErr' = [rotErr EXCEPT ![h] = err[w]]
          /\ IF err[w] = NoErr
             THEN /\ container' = fr[w]
                  /\ pc' = [pc EXCEPT ![w] = "load"]
                  /\ fr' = [fr EXCEPT ![w] = NoHandle]
                  /\ UNCHANGED <<f, plen, err, over, ran, late, postFail,
                                 results>>
             ELSE /\ FacadeReturn(w, RotatingErr(err[w]))
                  /\ UNCHANGED container
    /\ UNCHANGED <<rvars, ctor, stat, sync, max, crashed, closed, count, wg, file, nextH,
                   fsvars, issued, cvars, faults, closedBy, nRotate, nClose,
                   nRename, nOpen, crosser>>

\* ------------------------------------------------ RotateFileWriter.Close
\* atomic.StoreInt64(&r.closed, 1)
CloseStore ==
    /\ Live
    /\ cpc = "idle"
    /\ closed' = 1
    /\ cpc' = "load"
    /\ UNCHANGED <<rvars, ctor, stat, sync, max, crashed, container, count, once, wg, file,
                   nextH, fsvars, wvars, cf, cerr, gvars>>

\* r.container.Load().(*rotateFile)
CloseLoad ==
    /\ Live
    /\ cpc = "load"
    /\ cf' = container
    /\ cpc' = "close"
    /\ UNCHANGED <<rvars, ctor, stat, sync, max, crashed, hvars, fsvars, wvars, cerr, gvars>>

\* rotateFile.Close: return f.file.Close()
CloseFile(ok) ==
    /\ Live
    /\ cpc = "close"
    /\ ok \in Outcomes(file[cf] = "open")
    /\ cerr' = CloseResult(cf, ok)
    /\ file' = [file EXCEPT ![cf] = IF @ = "open" THEN "closed" ELSE @]
    /\ closedBy' = [closedBy EXCEPT ![cf] = IF file[cf] = "open" THEN "facade" ELSE @]
    /\ faults' = IF file[cf] = "open" /\ ~ok THEN faults + 1 ELSE faults
    /\ cpc' = "done"
    /\ UNCHANGED <<rvars, ctor, stat, sync, max, crashed, container, closed, count, once,
                   wg, nextH, fsvars, wvars, cf, nRotate, nClose, nRename,
                   nOpen, rotRes, rotErr, crosser>>

\* ------------------------------------------------------------- the reaper
\* The reaper shares no memory with the writers, only the directory.  It is
\* followed in a specification of its own, ReapSpec, in which the rotations
\* of the writer appear as the files they leave in the directory.  cfg.Path
\* is a bare file name in the working directory, so that the names
\* Readdirnames returns are matched by reapRegexp and os.Remove(file) names
\* the file that was listed.  Timestamps have equal width, so that the order
\* of sort.Strings is the order of the timestamps.
wstate == <<ctor, stat, sync, max, crashed, hvars, fsvars, wvars, cvars, gvars>>

\* the state NewRotateFileWriter leaves on an absent file it could open
Constructed ==
    /\ ctor = "ok"
    /\ stat = StatResult("notexist", 0)
    /\ container = 0
    /\ nextH = 1
    /\ file = [h \in Handles |-> IF h = 0 THEN "open" ELSE "none"]
    /\ name = [h \in Handles |-> IF h = 0 THEN "path" ELSE "none"]

\* time passes
Advance ==
    /\ now < MaxStamp
    /\ now' = now + 1
    /\ UNCHANGED <<wstate, retentionFiles, retentionDuration, dir, rpc,
                   cancelled, tickC, errors, errClosed, reading, res, reaped>>

\* Rotate renames the log file: now := time.Now().UnixNano();
\* archiveName := fmt.Sprintf("%s.%d", currentName, now); rename(currentName,
\* archiveName)
Rotated ==
    /\ \A e \in dir : e.ts # now
    /\ dir' = dir \cup {Entry("inter", now)}
    /\ UNCHANGED <<wstate, retentionFiles, retentionDuration, now, rpc,
                   cancelled, tickC, errors, errClosed, reading, res, reaped>>

\* archive has run on the intermediate file e: os.Create(archiveName + ".zip")
\* has made the archive (zipped) or failed, the deferred os.Remove(archiveName)
\* has deleted the intermediate file
Archived(e, zipped) ==
    /\ e \in dir
    /\ e.kind = "inter"
    /\ dir' = (dir \ {e}) \cup (IF zipped THEN {Entry("zip", e.ts)} ELSE {})
    /\ UNCHANGED <<wstate, retentionFiles, retentionDuration, now, rpc,
                   cancelled, tickC, errors, errClosed, reading, res, reaped>>

\* errors := make(chan error, 1); go r.reapLoop(ctx, errors, interval);
\* ticker := time.NewTicker(interval)
StartReaper ==
    /\ rpc = "off"
    /\ rpc' = "select"
    /\ UNCHANGED <<wstate, retentionFiles, retentionDuration, now, dir,
                   cancelled, tickC, errors, errClosed, reading, res, reaped>>

\* the ticker's period has elapsed: the tick is buffered in ticker.C, or
\* dropped when one is buffered already; a stopped ticker sends nothing
TickerFire ==
    /\ rpc \in {"select", "send"}
    /\ tickC = 0
    /\ tickC' = 1
    /\ UNCHANGED <<wstate, retentionFiles, retentionDuration, now, dir, rpc,
                   cancelled, errors, errClosed, reading, res, reaped>>

\* the owner of ctx cancels it
Cancel ==
    /\ rpc # "off"
    /\ ~cancelled
    /\ cancelled' = TRUE
    /\ UNCHANGED <<wstate, retentionFiles, retentionDuration, now, dir, rpc,
                   tickC, errors, errClosed, reading, res, reaped>>

\* reapRegexp.MatchString(file): filesToReap
Matching(d) == {e \in d : e.kind = "zip"}

\* var timestamp int64; fmt.Sscanf(matches[1], "%d", timestamp): the operand
\* is the int64 itself and not a pointer to it, so Sscanf stores nothing and
\* returns an error, whatever the digits are
Sscanf(digits) == [timestamp |-> 0, err |-> Err("scan", "type not a pointer")]

\* the test of the age rule on one file: `continue` when Sscanf fails, else
\* time.Unix(timestamp, 0).Add(r.retentionDuration).Before(time.Now())
TooOld(e) ==
    LET scanned == Sscanf(e.ts)
    IN /\ scanned.err = NoErr
       /\ scanned.timestamp + retentionDuration < now

\* sort.Strings on names that differ in their timestamp only
RECURSIVE SortStrings(_)
SortStrings(S) ==
    IF S = {} THEN <<>>
    ELSE LET m == CHOOSE x \in S : \A y \in S : x.ts <= y.ts
         IN <<m>> \o SortStrings(S \ {m})

\* the files the age rule removes, in the order of the directory listing
AgeList(files) ==
    IF retentionDuration > 0
    THEN SortStrings({e \in files : TooOld(e)})
    ELSE <<>>

\* sort.Strings(notTooOld); toRemove := notTooOld[r.retentionFiles:]
CountList(notTooOld) ==
    IF retentionFiles > 0 /\ Cardinality(notTooOld) > retentionFiles
    THEN SubSeq(SortStrings(notTooOld), retentionFiles + 1,
                Cardinality(notTooOld))
    ELSE <<>>

\* the elements of a sequence
Range(s) == {s[i] : i \in DOMAIN s}

\* RotateFileWriter.reap.  opened is the outcome of os.Open(base) and
\* Readdirnames; failAt is the position, among the calls of os.Remove this
\* execution makes, of the call that fails (0: none does).  A failed Remove
\* ends reap with its error.
Reap(opened, failAt) ==
    LET files == Matching(dir)
        aged == AgeList(files)
        notTooOld == files \ Range(aged)
        excess == CountList(notTooOld)
        removes == aged \o excess
        fails == failAt \in 1 .. Len(removes)
        done == IF fails THEN failAt - 1 ELSE Len(removes)
        gone == {removes[i] : i \in 1 .. done}
        e == IF ~opened THEN PathErrIO("open")
             ELSE IF fails THEN PathErrIO("remove")
             ELSE NoErr
    IN /\ failAt \in 0 .. Len(removes)
       /\ opened \/ failAt = 0
       /\ dir' = IF opened THEN dir \ gone ELSE dir
       /\ res' = e
       /\ reaped' = [ran |-> TRUE, err |-> e, now |-> now,
                     files |-> IF opened THEN files ELSE {},
                     old |-> IF opened THEN Range(aged) ELSE {},
                     excess |-> IF opened /\ (~fails \/ failAt > Len(aged))
                                THEN Range(excess) ELSE {},
                     gone |-> IF opened THEN gone ELSE {}]

\* reapLoop, `case <-ticker.C: errors <- r.reap()`: the receive and reap
LoopTick(opened, failAt) ==
    /\ rpc = "select"
    /\ tickC = 1
    /\ tickC' = 0
    /\ Reap(opened, failAt)
    /\ rpc' = "send"
    /\ UNCHANGED <<wstate, retentionFiles, retentionDuration, now, cancelled,
                   errors, errClosed, reading>>

\* reapLoop, `errors <- r.reap()`: the send, which waits for room in the
\* buffer of the channel
LoopSend ==
    /\ rpc = "send"
    /\ Len(errors) < 1
    /\ errors' = Append(errors, res)
    /\ res' = NoErr
    /\ rpc' = "select"
    /\ UNCHANGED <<wstate, retentionFiles, retentionDuration, now, dir,
                   cancelled, tickC, errClosed, reading, reaped>>

\* reapLoop, `case <-ctx.Done(): close(errors); return`, and the deferred
\* ticker.Stop()
LoopCancel ==
    /\ rpc = "select"
    /\ cancelled
    /\ errClosed' = TRUE
    /\ rpc' = "stopped"
    /\ tickC' = 0
    /\ UNCHANGED <<wstate, retentionFiles, retentionDuration, now, dir,
                   cancelled, errors, reading, res, reaped>>

\* the holder of the channel StartReaper returned receives a result
Receive ==
    /\ rpc # "off"
    /\ reading
    /\ errors # <<>>
    /\ errors' = Tail(errors)
    /\ UNCHANGED <<wstate, retentionFiles, retentionDuration, now, dir, rpc,
                   cancelled, tickC, errClosed, reading, res, reaped>>

\* the holder of the channel stops receiving
StopReading ==
    /\ rpc # "off"
    /\ reading
    /\ reading' = FALSE
    /\ UNCHANGED <<wstate, retentionFiles, retentionDuration, now, dir, rpc,
                   cancelled, tickC, errors, errClosed, res, reaped>>

\* ---------------------------------------------------------- specification
Next ==
    \/ \E found \in {"notexist", "exists", "error"}, s \in 0 .. MaxSizeBytes,
          opened \in BOOLEAN :
          NewRotateFileWriter(found, s, opened)
    \/ \E w \in Writers, n \in Lens : FacadeWrite(w, n)
    \/ \E w \in Writers : AddCount(w)
    \/ \E w \in Writers : WgAdd(w)
    \/ \E w \in Writers, ok \in BOOLEAN : FileWrite(w, ok)
    \/ \E w \in Writers : WgDone(w)
    \/ \E w \in Writers : OnceDo(w)
    \/ \E w \in Writers : LoadReplacement(w)
    \/ \E w \in Writers : RotateWait(w)
    \/ \E w \in Writers, ok \in BOOLEAN : RotateClose(w, ok)
    \/ \E w \in Writers, ok \in BOOLEAN : RotateRename(w, ok)
    \/ \E w \in Writers, ok \in BOOLEAN : RotateOpen(w, ok)
    \/ \E w \in Writers, failAt \in ArchiveSteps, removed \in BOOLEAN :
          RotateArchive(w, failAt, removed)
    \/ \E h \in Handles, failAt \in ArchiveSteps, removed \in BOOLEAN :
          Archive(h, failAt, removed)
    \/ \E w \in Writers : OnceReturn(w)
    \/ CloseStore
    \/ CloseLoad
    \/ \E ok \in BOOLEAN : CloseFile(ok)

Spec == Init /\ [][Next]_vars

\* ------------------------------------------------------- fair scheduling
\* A rotateFile that nothing refers to any more (not the shared reference,
\* not a frame of Write or Rotate, not Close, not an archive goroutine) is
\* garbage, and the file it wrote is of no further interest.  Handles being
\* numbered in the order of their allocation, the oldest handle is dropped
\* and the others are renumbered, which lets a run allocate any number of
\* handles with MaxHandles of them alive at a time.
Shift(X, fresh) ==
    [h \in Handles |-> IF h + 1 \in Handles THEN X[h + 1] ELSE fresh]
Down(h) == IF h > 0 THEN h - 1 ELSE NoHandle

Recycle ==
    /\ Live
    /\ nextH = MaxHandles
    /\ container # 0
    /\ \A w \in Writers : f[w] # 0 /\ fr[w] # 0
    /\ ~(cpc = "close" /\ cf = 0)
    /\ arch[0] # "pending"
    /\ container' = Down(container)
    /\ nextH' = nextH - 1
    /\ f' = [w \in Writers |-> Down(f[w])]
    /\ fr' = [w \in Writers |-> Down(fr[w])]
    /\ cf' = Down(cf)
    /\ results' = [w \in Writers |->
                      [i \in DOMAIN results[w] |->
                          [results[w][i] EXCEPT !.h = Down(@)]]]
    /\ count' = Shift(count, 0)
    /\ once' = Shift(once, "idle")
    /\ wg' = Shift(wg, 0)
    /\ file' = Shift(file, "none")
    /\ name' = Shift(name, "none")
    /\ content' = Shift(content, <<>>)
    /\ size' = Shift(size, 0)
    /\ zip' = Shift(zip, "none")
    /\ arch' = Shift(arch, "none")
    /\ closedBy' = Shift(closedBy, "none")
    /\ nRotate' = Shift(nRotate, 0)
    /\ nClose' = Shift(nClose, 0)
    /\ nRename' = Shift(nRename, 0)
    /\ nOpen' = Shift(nOpen, 0)
    /\ rotRes' = Shift(rotRes, "none")
    /\ rotErr' = Shift(rotErr, NoErr)
    /\ crosser' = Shift(crosser, NoPayload)
    /\ UNCHANGED <<rvars, ctor, stat, sync, max, crashed, closed, pc, plen,
                   err, issued, over, ran, late, postFail, cpc, cerr, faults>>

\* the next step of the goroutine that is inside a Write call
WriterStep(w) ==
    \/ pc[w] = "retry" /\ FacadeWrite(w, plen[w])
    \/ AddCount(w)
    \/ WgAdd(w)
    \/ \E ok \in BOOLEAN : FileWrite(w, ok)
    \/ WgDone(w)
    \/ OnceDo(w)
    \/ LoadReplacement(w)
    \/ RotateWait(w)
    \/ \E ok \in BOOLEAN : RotateClose(w, ok)
    \/ \E ok \in BOOLEAN : RotateRename(w, ok)
    \/ \E ok \in BOOLEAN : RotateOpen(w, ok)
    \/ \E failAt \in ArchiveSteps, removed \in BOOLEAN :
          RotateArchive(w, failAt, removed)
    \/ OnceReturn(w)

\* the next step of the goroutine that is inside Close
CloseStep == CloseLoad \/ \E ok \in BOOLEAN : CloseFile(ok)

\* the next step of an archive goroutine
ArchiveStep ==
    \E h \in Handles, failAt \in ArchiveSteps, removed \in BOOLEAN :
        Archive(h, failAt, removed)

FairNext == Next \/ Recycle

\* Every goroutine that can take a step eventually takes one; nobody is
\* obliged to call Write or Close.
Fairness ==
    /\ \A w \in Writers : WF_vars(WriterStep(w))
    /\ WF_vars(CloseStep)
    /\ WF_vars(ArchiveStep)
    /\ WF_vars(Recycle)

FairSpec == Init /\ [][FairNext]_vars /\ Fairness

\* The reaper of a constructed writer.
ReapInit ==
    /\ Constructed
    /\ Untouched
    /\ sync = FALSE
    /\ max = MaxSizeBytes
    /\ ReaperInit

ReapNext ==
    \/ Advance
    \/ Rotated
    \/ \E e \in Entries, zipped \in BOOLEAN : Archived(e, zipped)
    \/ StartReaper
    \/ TickerFire
    \/ Cancel
    \/ \E opened \in BOOLEAN, failAt \in 0 .. MaxStamp : LoopTick(opened, failAt)
    \/ LoopSend
    \/ LoopCancel
    \/ Receive
    \/ StopReading

\* Each step of the reapLoop goroutine is taken when it stays possible, and
\* the ticker keeps firing.  select picks among its ready cases at random, so
\* a case that is ready again and again is eventually picked.
ReapFair ==
    /\ WF_vars(\E opened \in BOOLEAN, failAt \in 0 .. MaxStamp :
                  LoopTick(opened, failAt))
    /\ WF_vars(LoopSend)
    /\ SF_vars(LoopCancel)
    /\ WF_vars(TickerFire)

ReapSpec == ReapInit /\ [][ReapNext]_vars /\ ReapFair


\* ------------------------------------------------------------ properties
\* the records of all finished Write calls
AllRecords == UNION {{results[w][i] : i \in DOMAIN results[w]} : w \in Writers}
\* number of times payload p was appended to the file of handle h
NumIn(h, p) == Cardinality({i \in DOMAIN content[h] : content[h][i] = p})
\* the positions of all files
Positions == UNION {{<<h, i>> : i \in DOMAIN content[h]} : h \in Handles}
\* number of times payload p was appended to any file
Occurrences(p) == Cardinality({x \in Positions : content[x[1]][x[2]] = p})
\* every payload of a call that was made
AllPayloads == {<<w, k>> : w \in Writers, k \in 1 .. MaxWrites}

\* C1: Rotate is executed at most once per handle, however many concurrent
\* Write calls are over the limit on it: at most one close, one rename to
\* the intermediate name and one reopen of the path happen per handle.
C1_RotateOncePerHandle ==
    \A h \in Handles :
        /\ nRotate[h] <= 1
        /\ nClose[h] <= 1
        /\ nRename[h] <= 1
        /\ nOpen[h] <= 1

\* Two callers were over the limit on the same handle: one ran the rotation
\* to success, the other went through the guard without running it.
C1_Witness ==
    \E h \in Handles, w \in Writers :
        /\ rotRes[h] = "ok" /\ nRotate[h] = 1 /\ nOpen[h] = 1
        /\ pc[w] = "load" /\ f[w] = h /\ over[w] /\ ~ran[w]

\* C2: Rotate never closes the descriptor of a handle while a Write that was
\* admitted on that handle (it added to the counter and found the total not
\* over the maximum) has not yet done its descriptor write.  Stated for the
\* runs in which no system call has failed.
C2_NoCloseUnderAdmittedWrite ==
    \A w \in Writers :
        (faults = 0 /\ pc[w] \in {"wgadd", "fwrite"})
            => closedBy[f[w]] # "rotate"

\* C3: no payload is duplicated or dropped: no payload is ever appended
\* twice, a call that returned nil has its payload appended exactly once to
\* exactly one file, and a call whose payload reached no file returned an
\* error.
C3_NoDuplicateNoDrop ==
    /\ \A p \in AllPayloads : Occurrences(p) <= 1
    /\ \A r \in AllRecords : (r.err = NoErr) <=> (Occurrences(r.id) = 1)

\* One call was written to the successor's file after a rotation and
\* another call, whose payload is in no file, returned an error.
C3_Witness ==
    \E r1, r2 \in AllRecords :
        /\ r1.err = NoErr /\ r1.h > 0 /\ NumIn(r1.h, r1.id) = 1
        /\ r2.err # NoErr /\ Occurrences(r2.id) = 0

\* the calls that took the counter of handle h over the maximum, finished,
\* after the rotation of h succeeded
CrossedAndRotated(r, h) == crosser[h] = r.id /\ rotRes[h] = "ok"

\* C4, as claimed: the write that takes a handle's counter over the maximum
\* is, when the rotation of that handle succeeds, written in full to a file
\* opened at the path after the rotation and not to the retired file.
C4_CrossingWriteLands ==
    \A r \in AllRecords, h \in Handles :
        CrossedAndRotated(r, h) =>
            /\ NumIn(h, r.id) = 0
            /\ \E h2 \in Handles : h2 > h /\ NumIn(h2, r.id) = 1

\* C4, amended: when the rotation succeeds, no part of the crossing write is
\* written to the retired file; if the call returns nil the payload was
\* appended exactly once to the file of a successor handle, and otherwise it
\* returned an error and the payload is in no file.
C4_CrossingWriteLandsOrFails ==
    \A r \in AllRecords, h \in Handles :
        CrossedAndRotated(r, h) =>
            /\ NumIn(h, r.id) = 0
            /\ IF r.err = NoErr
               THEN /\ Occurrences(r.id) = 1
                    /\ \E h2 \in Handles : h2 > h /\ NumIn(h2, r.id) = 1
               ELSE Occurrences(r.id) = 0

\* A crossing write ran the rotation, which succeeded, and returned nil
\* with its payload in the successor's file.
C4_Witness ==
    \E r \in AllRecords, h \in Handles :
        /\ CrossedAndRotated(r, h) /\ r.err = NoErr
        /\ NumIn(h + 1, r.id) = 1 /\ name[h + 1] = "path"

\* C5: while the cumulative size of the writes on the initial handle has
\* not exceeded the maximum (reaching it is allowed), no rotation has
\* started, the shared reference is the initial handle, every payload written
\* is in the original file and only there, in each writer's submission order,
\* and a call fails only with the error of its descriptor write; when the
\* descriptor is open and no system call failed, every call succeeds.
C5_NoRotationUnderLimit ==
    (ctor = "ok" /\ count[0] <= max) =>
        /\ container = 0 /\ nextH = 1
        /\ nRotate[0] = 0 /\ once[0] = "idle" /\ name[0] # "inter"
        /\ \A r \in AllRecords :
              /\ r.h = 0 /\ ~r.over /\ r.err.kind # "rotating"
              /\ (r.err = NoErr) <=> (NumIn(0, r.id) = 1)
        /\ (faults = 0 /\ file[0] = "open") =>
              \A r \in AllRecords : r.err = NoErr /\ NumIn(0, r.id) = 1
        /\ \A i, j \in DOMAIN content[0] :
              (i < j /\ content[0][i][1] = content[0][j][1])
                  => content[0][i][2] < content[0][j][2]

\* Two writes of the same writer filled the original file exactly to the
\* maximum, in order, without a rotation.
C5_Witness ==
    /\ ctor = "ok" /\ count[0] = max /\ nRotate[0] = 0
    /\ \E w \in Writers : content[0] = <<(<<w, 1>>), (<<w, 2>>)>>
    /\ \A w \in Writers : pc[w] = "idle"

\* C6: once construction has opened the file, and as long as the facade is
\* not closed, the shared reference points to a handle whose descriptor is
\* open, or the rotation of that handle is in progress.
C6_ReferenceIsLive ==
    (Live /\ file[0] # "nil" /\ cpc = "idle") =>
        (file[container] = "open" \/ once[container] = "running")

\* C7: when the rotation of a handle has failed, every Write that is over the
\* limit on that handle returns a rotation error and writes nothing: the
\* caller that ran the rotation gets the error of Rotate, every other caller
\* finds the shared reference still equal to the handle and gets the
\* rotation-failed error.
C7_FailedRotationIsReported ==
    /\ \A r \in AllRecords :
          (r.over /\ rotRes[r.h] = "fail") =>
              /\ r.err = IF r.ran THEN RotatingErr(rotErr[r.h])
                         ELSE RotateFailedErr
              /\ rotErr[r.h] # NoErr
              /\ Occurrences(r.id) = 0
    /\ \A w \in Writers :
          (pc[w] = "load" /\ rotRes[f[w]] = "fail") => container = f[w]
    /\ \A h \in Handles : rotRes[h] = "fail" => container # h + 1

\* The rotation of a handle failed; the caller that ran it and another
\* caller that was over the limit on the same handle have both returned.
C7_Witness ==
    \E r1, r2 \in AllRecords :
        /\ r1.h = r2.h /\ rotRes[r1.h] = "fail"
        /\ r1.over /\ r1.ran /\ r1.err = RotatingErr(rotErr[r1.h])
        /\ r2.over /\ ~r2.ran /\ r2.err = RotateFailedErr

\* C8: a Write issued through the facade after a rotation has failed
\* succeeds (against the old file), as long as the facade is not closed.
C8_WritesContinueAfterFailedRotation ==
    \A r \in AllRecords : (r.postFail /\ cpc = "idle") => r.err = NoErr

\* C9: when a step of archive fails (opening the intermediate file, creating
\* the archive, creating the entry, copying), the intermediate file is still
\* on disk when archive returns.
C9_FailedArchiveKeepsIntermediate ==
    \A h \in Handles :
        arch[h] \in {"open", "create", "entry", "copy"} => name[h] = "inter"

\* C10: a Write through the facade that begins after Close has returned
\* does not return nil.
C10_NoSuccessAfterClose ==
    \A r \in AllRecords : r.late => r.err # NoErr

\* the k members of S with the smallest timestamps
Oldest(S, k) == {e \in S : Cardinality({y \in S : y.ts < e.ts}) < k}

\* C11: in an execution of reap that returns nil with a maximum archive
\* count N > 0, when more than N matching archives remain after the age rule,
\* the archives the count rule deletes are exactly the oldest (count - N) of
\* them, so that the N newest are left.
C11_CountRuleDeletesOldest ==
    LET remaining == reaped.files \ reaped.old
    IN (/\ reaped.ran
        /\ reaped.err = NoErr
        /\ retentionFiles > 0
        /\ Cardinality(remaining) > retentionFiles)
           => reaped.gone \ reaped.old =
                  Oldest(remaining, Cardinality(remaining) - retentionFiles)

\* C12: in an execution of reap that returns nil with a retention duration
\* D > 0, every matching archive stamped earlier than now - D is deleted, and
\* no matching archive stamped later than now - D is deleted by the age rule.
C12_AgeRuleDeletesExpired ==
    (reaped.ran /\ reaped.err = NoErr /\ retentionDuration > 0) =>
        \A e \in reaped.files :
            /\ (e.ts + retentionDuration < reaped.now) => e \in reaped.gone
            /\ (e.ts + retentionDuration > reaped.now) => e \notin reaped.old

\* C13: once ctx is cancelled, reapLoop eventually closes the error channel.
C13_CancelClosesErrors == cancelled ~> errClosed

\* C14: NewRotateFileWriter on a log file that exists with size s returns a
\* usable writer whose initial handle has its counter at s.
C14_ExistingFileIsAdopted ==
    (stat.res = "exists" /\ TotalIssued = 0) =>
        /\ ctor = "ok"
        /\ container = 0
        /\ file[0] = "open"
        /\ count[0] = stat.size

\* C15: NewRotateFileWriter returns an error and no writer when os.Stat fails
\* with an error other than the file not existing and when os.OpenFile fails:
\* it never returns a writer and nil when the file could not be opened, and
\* never returns nil and nil.
C15_ConstructionFailsFast ==
    ctor # "new" =>
        /\ (stat.res = "error") => ctor = "err"
        /\ (ctor = "ok") => file[0] # "nil"
        /\ ctor # "nilnil"

\* C16: when Rotate returns the original handle because os.OpenFile of the
\* path failed, the descriptor of that handle is still open and its file is
\* still at the path.
C16_FailedReopenLeavesOriginal ==
    \A w \in Writers :
        (pc[w] = "oncedone" /\ fr[w] = f[w]) =>
            /\ file[f[w]] = "open"
            /\ name[f[w]] = "path"

\* the error archive returned for the file of handle h, by what it left
ArchiveErrOf(h) ==
    IF arch[h] \in ArchiveSteps \ {"none"} THEN PathErrIO(arch[h])
    ELSE IF arch[h] = "ok" /\ name[h] = "inter" THEN PathErrIO("remove")
    ELSE NoErr

\* C17: without f.sync, a rotation whose close, rename and reopen succeeded
\* succeeds and publishes the new handle whatever archive does (not started,
\* succeeded, failed), and the caller that ran it goes on to the new handle;
\* no call returns an error of archive.  With f.sync, a failure of archive
\* is the error of Rotate, and the caller that ran Rotate returns it.
C17_ArchivingAndTheTriggeringWrite ==
    /\ ~sync =>
          /\ \A h \in Handles :
                (nOpen[h] = 1 /\ once[h] = "done") =>
                    /\ rotRes[h] = "ok"
                    /\ rotErr[h] = NoErr
                    /\ container > h
          /\ \A w \in Writers :
                (pc[w] = "oncedone" /\ nOpen[f[w]] = 1) =>
                    /\ err[w] = NoErr
                    /\ fr[w] > f[w]
                    /\ file[fr[w]] = "open"
          /\ \A r \in AllRecords :
                r.err.cause \notin {"create", "entry", "copy", "remove"}
    /\ sync =>
          \A h \in Handles :
              (once[h] = "done" /\ ArchiveErrOf(h) # NoErr) =>
                  /\ rotRes[h] = "fail"
                  /\ rotErr[h] = ArchiveErrOf(h)
                  /\ container = h
                  /\ \A r \in AllRecords :
                        (r.h = h /\ r.ran) =>
                            r.err = RotatingErr(ArchiveErrOf(h))

\* Without f.sync, the call that took the counter over the maximum has
\* returned nil with its payload in the new file while the archive goroutine
\* has not run yet.
C17_Witness ==
    /\ ~sync
    /\ \E h \in Handles, r \in AllRecords :
          /\ arch[h] = "pending"
          /\ crosser[h] = r.id /\ r.err = NoErr
          /\ r.h = h + 1 /\ NumIn(h + 1, r.id) = 1

\* C19: for a writer constructed on an absent file, the file of no handle,
\* and so the file at the path, ever holds more than the maximum number of
\* bytes: the counter of a handle is at least the number of bytes in its file,
\* and a descriptor write is made only by a frame that found the counter,
\* after its add, at most the maximum.
C19_ActiveFileWithinLimit ==
    (ctor = "ok" /\ stat.res = "notexist") =>
        /\ \A h \in Handles :
              /\ size[h] <= count[h]
              /\ size[h] <= max
        /\ \A w \in Writers :
              pc[w] \in {"wgadd", "fwrite", "wgdone"} =>
                  (~over[w] /\ count[f[w]] >= plen[w])

\* A file was filled exactly to the maximum and retired, and its successor at
\* the path has received bytes.
C19_Witness ==
    \E h \in Handles :
        /\ size[h] = max /\ name[h] = "inter"
        /\ h + 1 \in Handles /\ name[h + 1] = "path" /\ size[h + 1] > 0

\* no Write (and so no Rotate) and no Close is in progress
Quiescent ==
    /\ Live
    /\ \A w \in Writers : pc[w] = "idle"
    /\ cpc \in {"idle", "done"}

\* C20: whenever no Write, Rotate or Close is in progress, every descriptor
\* the writer has open is the descriptor of the handle the shared reference
\* points to (so at most one is open).
C20_OneOpenDescriptor ==
    Quiescent => \A h \in Handles : (file[h] = "open" => h = container)

\* C18: under fair scheduling every Write call through the facade returns,
\* whatever the length of its payload (the process not having panicked).
C18_EveryWriteReturns ==
    \A w \in Writers : (pc[w] # "idle") ~> (pc[w] = "idle" \/ crashed)

====
